---- MODULE Spec2Model ----
(***************************************************************************)
(* Model of the CRT simulation kernel of Main.py: class CRTSimulationLogic *)
(* and the CRTGui handlers that forward user edits into it.                *)
(*                                                                         *)
(* Numbers.  The program computes in floating point; the model computes    *)
(* in exact integer arithmetic on fixed grids:                             *)
(*   time      1 unit = 2.5 ms  (400 units per second, dt = 0.01 s = 4)    *)
(*   angle     1 unit = 0.9 deg (TurnUnits = 400 units per 360 deg)        *)
(*   frequency whole Hz, so frequency * time is an angle in angle units    *)
(*   voltage   amplitudes and manual voltages in whole volts, values       *)
(*             returned by get_voltages in millivolts                      *)
(*   position  1 unit = 0.001 screen units (x in -100000 .. 100000)        *)
(* np.sin is a table of sin rounded to three decimals on the angle grid.   *)
(* The input sets below keep every value on these grids, so the modulo     *)
(* and the division of the phase-lock solver are exact.                    *)
(*                                                                         *)
(* Two places where the rounding of the program's floats decides between   *)
(* outcomes that differ on the grids are modelled as the program behaves:  *)
(*   - step_time compares time_history[-1] - time_history[0] with 5.0,     *)
(*     where the times are sums of 0.01: a sample exactly 500 ticks old    *)
(*     is kept or dropped as the sums round (RoundsAboveTicks);            *)
(*   - _apply_delta_target reduces an angle modulo 360.0: an angle that    *)
(*     is a whole number of turns comes out as 0 or, when the float        *)
(*     argument falls short of it, as a full turn (ApplyDeltaTarget).      *)
(***************************************************************************)
EXTENDS Integers, Sequences, FiniteSets, TLC

VARIABLES
    logic,      \* the CRTSimulationLogic object: one record, one field per attribute
    lastOp,     \* name of the handler that ran last ("init" after construction)
    ticksRun,   \* history: positions computed by the running ticks since the trail was last emptied
    ticksValid, \* history: FALSE once the capacity was edited since the trail was last emptied
    nTicks,     \* number of timer ticks taken in this run (bounded by MaxTicks)
    nEdits      \* number of user edits taken in this run (bounded by MaxEdits)

vars == <<logic, lastOp, ticksRun, ticksValid, nTicks, nEdits>>

-----------------------------------------------------------------------------
(* Bounds of the exploration *)

MaxTicks == 3
MaxEdits == 2
WarmTicks == 1660

(* Program constants, on the model's grids *)

DT == 4
TIME_WINDOW == 2000
TurnUnits == 400
DEFLECTION_SCALE == 5000
SCREEN_X_MAX == 100000
SCREEN_Y_MAX == 60000

\* Length of a session, in ticks since time 0, up to which RoundsAboveTicks
\* lists the outcomes of the comparison with time_window
TabulatedTicks == 204820

\* The ticks n since time 0, as intervals <<first, last>>, at which the float
\* difference of the time after n additions of 0.01 and the time after
\* n - 500 additions is greater than 5.0; at every other tick up to
\* TabulatedTicks it is 5.0 or less
RoundsAboveTicks == {<<1662, 3419>>, <<6541, 12978>>}

(* Inputs the handlers are called with *)

AccValues == {500, 2000}
PersValues == {10, 100}
ManualValues == {0, 50}
AmpValues == {0, 50}
FreqValues == {1, 2}
PhaseValues == {0, 100}
RatioPresets == {<<1, 1>>, <<1, 2>>, <<1, 3>>, <<2, 3>>}
DeltaPresets == {0, 50, 100, 150, 200}

-----------------------------------------------------------------------------
(* Numeric helpers *)

Max(a, b) == IF a >= b THEN a ELSE b

\* mutant of Clip: the value is passed through unclamped
ClipNone(v, lo, hi) == v

\* np.clip(v, lo, hi)
Clip(v, lo, hi) == IF v < lo THEN lo ELSE IF v > hi THEN hi ELSE v

\* sin of 0 .. 90 deg in steps of 0.9 deg, times 1000
SinTable ==
    << 0, 16, 31, 47, 63, 78, 94, 110, 125, 141, 156, 172, 187, 203, 218,
       233, 249, 264, 279, 294, 309, 324, 339, 353, 368, 383, 397, 412, 426,
       440, 454, 468, 482, 495, 509, 522, 536, 549, 562, 575, 588, 600, 613,
       625, 637, 649, 661, 673, 685, 696, 707, 718, 729, 740, 750, 760, 771,
       780, 790, 800, 809, 818, 827, 836, 844, 853, 861, 869, 876, 884, 891,
       898, 905, 911, 918, 924, 930, 935, 941, 946, 951, 956, 960, 965, 969,
       972, 976, 979, 982, 985, 988, 990, 992, 994, 996, 997, 998, 999, 1000,
       1000, 1000 >>

\* np.sin of an angle given in angle units (any integer), times 1000
Sin(a) ==
    LET r == a % TurnUnits
        h == TurnUnits \div 2
        q == TurnUnits \div 4
        m == r % h
        v == SinTable[(IF m <= q THEN m ELSE h - m) + 1]
    IN  IF r < h THEN v ELSE -v

\* mutant of LastN: nothing is dropped
KeepAll(s, n) == s

\* mutant of LastN: the slice keeps the oldest n elements, s[:n]
FirstN(s, n) == IF Len(s) > n THEN SubSeq(s, 1, n) ELSE s

\* s[-n:] of Python for n >= 1: the last n elements, the whole list when it is shorter
LastN(s, n) == IF Len(s) > n THEN SubSeq(s, Len(s) - n + 1, Len(s)) ELSE s

-----------------------------------------------------------------------------
(* CRTSimulationLogic *)

\* __init__
InitLogic ==
    [ acceleration_voltage |-> 2000,
      manual_vx            |-> 0,
      manual_vy            |-> 0,
      persistence          |-> 100,
      mode                 |-> "manual",
      sine_params          |-> [ amplitude_x |-> 50, frequency_x |-> 1, phase_x |-> 0,
                                amplitude_y |-> 50, frequency_y |-> 1, phase_y |-> 0 ],
      time                 |-> 0,
      is_running           |-> FALSE,
      trail_points_x       |-> << >>,
      trail_points_y       |-> << >>,
      current_position     |-> [x |-> 0, y |-> 0],
      voltage_history_x    |-> << >>,
      voltage_history_y    |-> << >>,
      time_history         |-> << >>,
      delta_target_deg     |-> 0,
      t0                   |-> 0 ]

\* calculate_deflection: voltage in millivolts, result in units of 1e-5
CalculateDeflection(l, voltage) ==
    IF voltage = 0 THEN 0
    ELSE (voltage * DEFLECTION_SCALE) \div Max(1000, l.acceleration_voltage)

\* the argument of np.sin for one channel at time t, in angle units
PhaseX(l, t) == l.sine_params.frequency_x * (t - l.t0) + l.sine_params.phase_x

PhaseY(l, t) == l.sine_params.frequency_y * (t - l.t0) + l.sine_params.phase_y

\* get_voltages, in millivolts
GetVoltages(l, t) ==
    IF l.mode = "manual"
    THEN [vx |-> l.manual_vx * 1000, vy |-> l.manual_vy * 1000]
    ELSE [vx |-> l.sine_params.amplitude_x * Sin(PhaseX(l, t)),
          vy |-> l.sine_params.amplitude_y * Sin(PhaseY(l, t))]

\* calculate_position: deflection * 100 in screen units is the deflection's
\* number in units of 0.001 screen units
CalculatePosition(l, t) ==
    LET voltages == GetVoltages(l, t)
        screen_x == CalculateDeflection(l, voltages.vx)
        screen_y == CalculateDeflection(l, voltages.vy)
    IN  [x |-> Clip(screen_x, -SCREEN_X_MAX, SCREEN_X_MAX),
         y |-> Clip(screen_y, -SCREEN_Y_MAX, SCREEN_Y_MAX)]

\* mutant of EvictOld: no sample is ever dropped
EvictNone(h) == h

\* mutant of EvictOld: a sample exactly time_window old is dropped too
RECURSIVE EvictEager(_)
EvictEager(h) ==
    IF Len(h.t) > 1 /\ h.t[Len(h.t)] - h.t[1] >= TIME_WINDOW
    THEN EvictEager([t |-> Tail(h.t), vx |-> Tail(h.vx), vy |-> Tail(h.vy)])
    ELSE h

\* time_history[-1] - time_history[0] > time_window for the newest time tNew
\* and the oldest time tOld, as the floats of the program decide it: times
\* more than 500 ticks apart are above the window, times less than 500 ticks
\* apart are not, and times exactly 500 ticks apart are above it at the
\* ticks of RoundsAboveTicks
SpanExceeds(tNew, tOld) ==
    \/ tNew - tOld > TIME_WINDOW
    \/ /\ tNew - tOld = TIME_WINDOW
       /\ \E r \in RoundsAboveTicks : r[1] * DT <= tNew /\ tNew <= r[2] * DT

\* the while loop of step_time: pop the oldest sample while more than one
\* sample is held and the window is longer than time_window
RECURSIVE EvictOld(_)
EvictOld(h) ==
    IF Len(h.t) > 1 /\ SpanExceeds(h.t[Len(h.t)], h.t[1])
    THEN EvictOld([t |-> Tail(h.t), vx |-> Tail(h.vx), vy |-> Tail(h.vy)])
    ELSE h

\* step_time, the branch taken when is_running
StepRunning(l) ==
    LET t   == l.time + DT
        l1  == [l EXCEPT !.time = t]
        pos == CalculatePosition(l1, t)
        v   == GetVoltages(l1, t)
        h   == EvictOld([t  |-> Append(l.time_history, t),
                         vx |-> Append(l.voltage_history_x, v.vx),
                         vy |-> Append(l.voltage_history_y, v.vy)])
    IN  [l1 EXCEPT !.current_position  = pos,
                   !.trail_points_x    = LastN(Append(l.trail_points_x, pos.x), l.persistence),
                   !.trail_points_y    = LastN(Append(l.trail_points_y, pos.y), l.persistence),
                   !.time_history      = h.t,
                   !.voltage_history_x = h.vx,
                   !.voltage_history_y = h.vy]

\* step_time, the else branch
StepStopped(l) == [l EXCEPT !.current_position = CalculatePosition(l, l.time)]

\* mutant of StepTime: the running flag is not consulted
StepAlways(l) == StepRunning(l)

\* step_time
StepTime(l) == IF l.is_running THEN StepRunning(l) ELSE StepStopped(l)

\* _apply_delta_target.  The argument of % 360.0 is computed in floats from
\* the accumulated time: when it stands for a whole number of turns, with
\* different frequencies and time > 0, it is either at or above the whole
\* number, and phase_y is 0, or it falls short of it (short), and phase_y is
\* 360.0 or the float below it, a full turn on the angle grid.
ApplyDeltaTarget(l, short) ==
    LET df  == l.sine_params.frequency_y - l.sine_params.frequency_x
        arg == l.sine_params.phase_x + l.delta_target_deg - df * l.time
        phase_y_deg == IF arg % TurnUnits = 0 /\ df # 0 /\ l.time > 0 /\ short
                       THEN TurnUnits
                       ELSE arg % TurnUnits
    IN  [l EXCEPT !.sine_params.phase_y = phase_y_deg,
                  !.trail_points_x = << >>,
                  !.trail_points_y = << >>]

\* mutant of SetDeltaByTimeOrigin: the correction of t0 has the wrong sign
SetDeltaByTimeOriginPlus(l, delta_deg) ==
    LET df   == l.sine_params.frequency_y - l.sine_params.frequency_x
        phix == l.sine_params.phase_x
        phiy == l.sine_params.phase_y
        l1   == IF df = 0
                THEN [l EXCEPT !.sine_params.phase_y = (phix + delta_deg) % TurnUnits]
                ELSE [l EXCEPT !.t0 = l.time + (delta_deg - (phiy - phix)) \div df]
    IN  [l1 EXCEPT !.trail_points_x = << >>, !.trail_points_y = << >>]

\* mutant of SetDeltaByTimeOrigin: the test on the denominator is missing and
\* t0 is moved even when the two frequencies are equal
SetDeltaByTimeOriginNoDirect(l, delta_deg) ==
    LET df   == l.sine_params.frequency_y - l.sine_params.frequency_x
        phix == l.sine_params.phase_x
        phiy == l.sine_params.phase_y
        l1   == [l EXCEPT !.t0 = l.time - (delta_deg - (phiy - phix))
                                              \div (IF df = 0 THEN 1 ELSE df)]
    IN  [l1 EXCEPT !.trail_points_x = << >>, !.trail_points_y = << >>]

\* mutant of SetDeltaByTimeOrigin: with equal frequencies phase_y is not
\* written
SetDeltaByTimeOriginNoPhase(l, delta_deg) ==
    LET df   == l.sine_params.frequency_y - l.sine_params.frequency_x
        phix == l.sine_params.phase_x
        phiy == l.sine_params.phase_y
        l1   == IF df = 0
                THEN l
                ELSE [l EXCEPT !.t0 = l.time - (delta_deg - (phiy - phix)) \div df]
    IN  [l1 EXCEPT !.trail_points_x = << >>, !.trail_points_y = << >>]

\* _set_delta_by_time_origin
SetDeltaByTimeOrigin(l, delta_deg) ==
    LET df   == l.sine_params.frequency_y - l.sine_params.frequency_x
        phix == l.sine_params.phase_x
        phiy == l.sine_params.phase_y
        l1   == IF df = 0
                THEN [l EXCEPT !.sine_params.phase_y = (phix + delta_deg) % TurnUnits]
                ELSE [l EXCEPT !.t0 = l.time - (delta_deg - (phiy - phix)) \div df]
    IN  [l1 EXCEPT !.trail_points_x = << >>, !.trail_points_y = << >>]

\* mutant of Start: starting also empties the trail
StartFresh(l) ==
    [l EXCEPT !.is_running = TRUE, !.trail_points_x = << >>, !.trail_points_y = << >>]

\* start
Start(l) == [l EXCEPT !.is_running = TRUE]

\* mutant of Stop: stopping also rewinds the clock
StopRewind(l) == [l EXCEPT !.is_running = FALSE, !.time = 0]

\* stop
Stop(l) == [l EXCEPT !.is_running = FALSE]

\* mutant of Reset: the time origin is not cleared
ResetKeepT0(l) ==
    [l EXCEPT !.is_running = FALSE,
              !.time = 0,
              !.trail_points_x = << >>,
              !.trail_points_y = << >>,
              !.current_position = [x |-> 0, y |-> 0],
              !.voltage_history_x = << >>,
              !.voltage_history_y = << >>,
              !.time_history = << >>]

\* mutant of Reset: the channel parameters go back to their defaults too
ResetDefaults(l) ==
    [l EXCEPT !.is_running = FALSE,
              !.time = 0,
              !.trail_points_x = << >>,
              !.trail_points_y = << >>,
              !.current_position = [x |-> 0, y |-> 0],
              !.voltage_history_x = << >>,
              !.voltage_history_y = << >>,
              !.time_history = << >>,
              !.t0 = 0,
              !.sine_params = InitLogic.sine_params]

\* mutant of Reset: the delta target goes back to 0 as well
ResetDeltaTarget(l) ==
    [l EXCEPT !.is_running = FALSE,
              !.time = 0,
              !.trail_points_x = << >>,
              !.trail_points_y = << >>,
              !.current_position = [x |-> 0, y |-> 0],
              !.voltage_history_x = << >>,
              !.voltage_history_y = << >>,
              !.time_history = << >>,
              !.t0 = 0,
              !.delta_target_deg = 0]

\* reset
Reset(l) ==
    [l EXCEPT !.is_running = FALSE,
              !.time = 0,
              !.trail_points_x = << >>,
              !.trail_points_y = << >>,
              !.current_position = [x |-> 0, y |-> 0],
              !.voltage_history_x = << >>,
              !.voltage_history_y = << >>,
              !.time_history = << >>,
              !.t0 = 0]

-----------------------------------------------------------------------------
(* CRTGui handlers: the user-facing setters *)

\* _on_acc_changed
OnAccChanged(l, val) ==
    LET l1 == [l EXCEPT !.acceleration_voltage = val]
    IN  IF ~l1.is_running
        THEN [l1 EXCEPT !.current_position = CalculatePosition(l1, l1.time)]
        ELSE l1

\* mutant of OnPersChanged: the trail is cut to its oldest points
OnPersChangedHead(l, val) ==
    [l EXCEPT !.persistence = val,
              !.trail_points_x = FirstN(l.trail_points_x, val),
              !.trail_points_y = FirstN(l.trail_points_y, val)]

\* mutant of OnPersChanged: only the list of x coordinates is cut
OnPersChangedXOnly(l, val) ==
    [l EXCEPT !.persistence = val,
              !.trail_points_x = LastN(l.trail_points_x, val)]

\* _on_pers_changed
OnPersChanged(l, val) ==
    [l EXCEPT !.persistence = val,
              !.trail_points_x = LastN(l.trail_points_x, val),
              !.trail_points_y = LastN(l.trail_points_y, val)]

\* mutant of OnVxChanged: the position is left for the next tick to compute
OnVxChangedLazy(l, val) == [l EXCEPT !.manual_vx = val]

\* _on_vx_changed
OnVxChanged(l, val) ==
    LET l1 == [l EXCEPT !.manual_vx = val]
    IN  IF ~l1.is_running /\ l1.mode = "manual"
        THEN [l1 EXCEPT !.current_position = CalculatePosition(l1, l1.time)]
        ELSE l1

\* _on_vy_changed
OnVyChanged(l, val) ==
    LET l1 == [l EXCEPT !.manual_vy = val]
    IN  IF ~l1.is_running /\ l1.mode = "manual"
        THEN [l1 EXCEPT !.current_position = CalculatePosition(l1, l1.time)]
        ELSE l1

\* _on_mode_changed, once the radio button m is the checked one
OnModeChanged(l, m) ==
    [l EXCEPT !.mode = m, !.trail_points_x = << >>, !.trail_points_y = << >>]

\* _on_ampx_changed
OnAmpxChanged(l, val) == [l EXCEPT !.sine_params.amplitude_x = val]

\* _on_ampy_changed
OnAmpyChanged(l, val) == [l EXCEPT !.sine_params.amplitude_y = val]

\* _on_fx_changed
OnFxChanged(l, val) ==
    LET l1 == [l EXCEPT !.sine_params.frequency_x = val]
    IN  SetDeltaByTimeOrigin(l1, l1.delta_target_deg)

\* _on_fy_changed
OnFyChanged(l, val) ==
    LET l1 == [l EXCEPT !.sine_params.frequency_y = val]
    IN  SetDeltaByTimeOrigin(l1, l1.delta_target_deg)

\* _on_phix_changed
OnPhixChanged(l, val, short) ==
    ApplyDeltaTarget([l EXCEPT !.sine_params.phase_x = val], short)

\* _on_phiy_changed
OnPhiyChanged(l, val) == [l EXCEPT !.sine_params.phase_y = val]

\* dspin_fx.setValue(fx): the spin box shows frequency_x and emits
\* valueChanged, which runs _on_fx_changed, only when the value changes
DspinFxSetValue(l, fx) ==
    IF fx # l.sine_params.frequency_x THEN OnFxChanged(l, fx) ELSE l

\* dspin_fy.setValue(fy)
DspinFySetValue(l, fy) ==
    IF fy # l.sine_params.frequency_y THEN OnFyChanged(l, fy) ELSE l

\* _on_ratio_changed for the preset (fx, fy)
OnRatioChanged(l, fx, fy) ==
    LET l1 == DspinFySetValue(DspinFxSetValue(l, fx), fy)
        l2 == [l1 EXCEPT !.sine_params.frequency_x = fx,
                         !.sine_params.frequency_y = fy,
                         !.trail_points_x = << >>,
                         !.trail_points_y = << >>]
    IN  SetDeltaByTimeOrigin(l2, l2.delta_target_deg)

\* mutant of OnDeltaPresetChanged: the 1:1 branch stores d itself as phase_y
OnDeltaPresetChangedAbs(l, d) ==
    LET l1 == [l EXCEPT !.delta_target_deg = d]
        l2 == IF l1.sine_params.frequency_x = l1.sine_params.frequency_y
              THEN [l1 EXCEPT !.sine_params.phase_y = l1.delta_target_deg % TurnUnits]
              ELSE SetDeltaByTimeOrigin(l1, l1.delta_target_deg)
    IN  [l2 EXCEPT !.trail_points_x = << >>, !.trail_points_y = << >>]

\* _on_delta_preset_changed for the preset d.  In the 1:1 branch the value
\* _on_phiy_changed stores on dspin_phiy.setValue is overwritten by line 700.
OnDeltaPresetChanged(l, d) ==
    LET l1 == [l EXCEPT !.delta_target_deg = d]
        l2 == IF l1.sine_params.frequency_x = l1.sine_params.frequency_y
              THEN [l1 EXCEPT !.sine_params.phase_y =
                                  (l1.sine_params.phase_x + l1.delta_target_deg) % TurnUnits]
              ELSE SetDeltaByTimeOrigin(l1, l1.delta_target_deg)
    IN  [l2 EXCEPT !.trail_points_x = << >>, !.trail_points_y = << >>]

-----------------------------------------------------------------------------
(* State machine *)

\* the logic object after n more timer ticks (the run is split in two halves
\* and the test on the half-way state makes its evaluation strict)
RECURSIVE TickN(_, _)
TickN(l, n) ==
    IF n = 0 THEN l
    ELSE IF n = 1 THEN StepTime(l)
    ELSE LET half == TickN(l, n \div 2)
         IN  IF half.time >= 0 THEN TickN(half, n - n \div 2) ELSE half

\* the logic object after choosing the Lissajous mode, start() and WarmTicks
\* timer ticks from construction
WarmStart == Start(OnModeChanged(InitLogic, "sinusoidal"))

WarmLogic == TickN(WarmStart, WarmTicks)

Init ==
    /\ logic = InitLogic
    /\ lastOp = "init"
    /\ ticksRun = << >>
    /\ ticksValid = TRUE
    /\ nTicks = 0
    /\ nEdits = 0

\* a session that has been running for WarmTicks ticks in Lissajous mode
\* (one edit made, the tick budget still whole)
InitWarm ==
    /\ logic = WarmLogic
    /\ lastOp = "tick"
    /\ ticksRun = [i \in 1..WarmTicks |-> CalculatePosition(WarmStart, i * DT)]
    /\ ticksValid = TRUE
    /\ nTicks = 0
    /\ nEdits = 1

\* a handler that leaves the trail as it is
Keep == UNCHANGED <<ticksRun, ticksValid>>

\* a handler that empties the trail
Cleared == ticksRun' = << >> /\ ticksValid' = TRUE

Edit(op) == nEdits < MaxEdits /\ nEdits' = nEdits + 1 /\ lastOp' = op /\ UNCHANGED nTicks

Control(op) == lastOp' = op /\ UNCHANGED <<nTicks, nEdits>>

\* _on_tick
Tick ==
    /\ nTicks < MaxTicks
    /\ logic.time < TabulatedTicks * DT
    /\ logic' = StepTime(logic)
    /\ lastOp' = "tick"
    /\ nTicks' = nTicks + 1
    /\ ticksRun' = IF logic.is_running
                   THEN Append(ticksRun, logic'.current_position)
                   ELSE ticksRun
    /\ UNCHANGED <<ticksValid, nEdits>>

\* _on_start
DoStart == logic' = Start(logic) /\ Control("start") /\ Keep

\* _on_stop
DoStop == logic' = Stop(logic) /\ Control("stop") /\ Keep

\* _on_reset
DoReset == logic' = Reset(logic) /\ Control("reset") /\ Cleared

\* A spin box, slider or radio button emits its signal only when its value
\* changes; the preset groups emit on every click.
SetAcc ==
    \E val \in AccValues :
        /\ val # logic.acceleration_voltage
        /\ logic' = OnAccChanged(logic, val) /\ Edit("acc") /\ Keep

SetPers ==
    \E val \in PersValues :
        /\ val # logic.persistence
        /\ logic' = OnPersChanged(logic, val) /\ Edit("pers")
        /\ ticksValid' = (ticksValid /\ ticksRun = << >>)
        /\ UNCHANGED ticksRun

SetVx ==
    \E val \in ManualValues :
        /\ val # logic.manual_vx
        /\ logic' = OnVxChanged(logic, val) /\ Edit("vx") /\ Keep

SetVy ==
    \E val \in ManualValues :
        /\ val # logic.manual_vy
        /\ logic' = OnVyChanged(logic, val) /\ Edit("vy") /\ Keep

SetMode ==
    \E m \in {"manual", "sinusoidal"} :
        /\ m # logic.mode
        /\ logic' = OnModeChanged(logic, m) /\ Edit("mode") /\ Cleared

SetAmpx ==
    \E val \in AmpValues :
        /\ val # logic.sine_params.amplitude_x
        /\ logic' = OnAmpxChanged(logic, val) /\ Edit("ampx") /\ Keep

SetAmpy ==
    \E val \in AmpValues :
        /\ val # logic.sine_params.amplitude_y
        /\ logic' = OnAmpyChanged(logic, val) /\ Edit("ampy") /\ Keep

SetFx ==
    \E val \in FreqValues :
        /\ val # logic.sine_params.frequency_x
        /\ logic' = OnFxChanged(logic, val) /\ Edit("fx") /\ Cleared

SetFy ==
    \E val \in FreqValues :
        /\ val # logic.sine_params.frequency_y
        /\ logic' = OnFyChanged(logic, val) /\ Edit("fy") /\ Cleared

\* short: whether the float argument of % 360.0 in _apply_delta_target falls
\* short of the whole number of turns it stands for
SetPhix ==
    \E val \in PhaseValues, short \in BOOLEAN :
        /\ val # logic.sine_params.phase_x
        /\ logic' = OnPhixChanged(logic, val, short) /\ Edit("phix") /\ Cleared

\* the spin box of phase_y is not refreshed when the logic rewrites phase_y,
\* so any value can arrive as a change
SetPhiy ==
    \E val \in PhaseValues :
        /\ logic' = OnPhiyChanged(logic, val) /\ Edit("phiy") /\ Keep

SetRatio ==
    \E r \in RatioPresets :
        /\ logic' = OnRatioChanged(logic, r[1], r[2]) /\ Edit("ratio") /\ Cleared

SetDelta ==
    \E d \in DeltaPresets :
        /\ logic' = OnDeltaPresetChanged(logic, d) /\ Edit("delta") /\ Cleared

Next ==
    \/ Tick \/ DoStart \/ DoStop \/ DoReset
    \/ SetAcc \/ SetPers \/ SetVx \/ SetVy \/ SetMode
    \/ SetAmpx \/ SetAmpy \/ SetFx \/ SetFy \/ SetPhix \/ SetPhiy
    \/ SetRatio \/ SetDelta

Spec == Init /\ [][Next]_vars

SpecWarm == InitWarm /\ [][Next]_vars

-----------------------------------------------------------------------------
(* Properties *)

Min(a, b) == IF a <= b THEN a ELSE b

\* the phase difference of channel Y against channel X that get_voltages
\* uses at time t: (phase_y - phase_x) + (frequency_y - frequency_x) * (t - t0)
InstDelta(l, t) == PhaseY(l, t) - PhaseX(l, t)

InScreen(x, y) ==
    /\ -SCREEN_X_MAX <= x /\ x <= SCREEN_X_MAX
    /\ -SCREEN_Y_MAX <= y /\ y <= SCREEN_Y_MAX

\* C1 (trail bound): in every reachable state the trail holds at most
\* persistence (trailCapacity) points.
C1_TrailBound ==
    /\ Len(logic.trail_points_x) <= logic.persistence
    /\ Len(logic.trail_points_y) <= logic.persistence

\* the capacity has been cut to 10 and a later tick has dropped the oldest
\* point of the full trail
C1_Witness ==
    /\ lastOp = "tick"
    /\ logic.is_running
    /\ nTicks > 0
    /\ logic.persistence = 10
    /\ Len(ticksRun) > logic.persistence
    /\ Len(logic.trail_points_x) = logic.persistence

\* C2 (history window): in every reachable state the voltage history holds
\* at most one sample or its newest and oldest samples are at most 5.0 s apart.
C2_HistoryWindow ==
    LET th == logic.time_history
    IN  Len(th) <= 1 \/ th[Len(th)] - th[1] <= TIME_WINDOW

\* a tick has just evicted the oldest samples and the window is full
C2_Witness ==
    LET th == logic.time_history
    IN  /\ lastOp = "tick"
        /\ nTicks > 0
        /\ Len(th) > 1
        /\ th[1] > DT
        /\ th[Len(th)] - th[1] = TIME_WINDOW

\* C3 (reset completeness): right after reset() the system is stopped, time
\* and the time origin are 0 and the trail and the voltage history are empty.
C3_ResetComplete ==
    lastOp = "reset" =>
        /\ ~logic.is_running
        /\ logic.time = 0
        /\ logic.t0 = 0
        /\ logic.trail_points_x = << >> /\ logic.trail_points_y = << >>
        /\ logic.time_history = << >>
        /\ logic.voltage_history_x = << >> /\ logic.voltage_history_y = << >>

\* reset() has run after ticks and after edits that left unequal frequencies
C3_Witness ==
    /\ lastOp = "reset"
    /\ nTicks > 0
    /\ nEdits > 0
    /\ logic.sine_params.frequency_x # logic.sine_params.frequency_y

\* C4 (phase lock, 1:1): with equal frequencies, right after a target delta d
\* is chosen, (phase_y - phase_x) mod 360 is d.
C4_PhaseLock11 ==
    (lastOp = "delta" /\ logic.sine_params.frequency_x = logic.sine_params.frequency_y) =>
        (logic.sine_params.phase_y - logic.sine_params.phase_x) % TurnUnits
            = logic.delta_target_deg

\* a non-zero delta has been chosen at a later time, with phase_x not 0
C4_Witness ==
    /\ lastOp = "delta"
    /\ logic.sine_params.frequency_x = logic.sine_params.frequency_y
    /\ logic.delta_target_deg # 0
    /\ logic.sine_params.phase_x # 0
    /\ logic.time > 0

\* C5 (phase lock, not 1:1): with unequal frequencies, right after
\* _set_delta_by_time_origin(d) ran for a frequency edit, a ratio preset or a
\* delta preset, the phase difference get_voltages uses at the current time is d.
C5_PhaseLockT0 ==
    (/\ lastOp \in {"fx", "fy", "ratio", "delta"}
     /\ logic.sine_params.frequency_x # logic.sine_params.frequency_y) =>
        InstDelta(logic, logic.time) = logic.delta_target_deg

\* the time origin has been moved off 0 at a later time for a non-zero delta
C5_Witness ==
    /\ lastOp \in {"fx", "fy", "ratio", "delta"}
    /\ logic.sine_params.frequency_x # logic.sine_params.frequency_y
    /\ logic.delta_target_deg # 0
    /\ logic.time > 0
    /\ logic.t0 # 0

\* C6 (delta across a phase_x edit): right after a phase_x edit the phase
\* difference get_voltages uses at the current time is the target delta mod 360.
C6_DeltaAfterPhix ==
    lastOp = "phix" =>
        InstDelta(logic, logic.time) % TurnUnits = logic.delta_target_deg % TurnUnits

\* C7 (clamping): the current position and every trail point lie on the
\* screen, x in [-100, 100] and y in [-60, 60].
C7_Clamping ==
    /\ InScreen(logic.current_position.x, logic.current_position.y)
    /\ \A i \in 1..Len(logic.trail_points_x) :
           InScreen(logic.trail_points_x[i], logic.trail_points_y[i])

\* a running tick has stored a point whose deflection lies off the screen
\* on both axes
C7_Witness ==
    LET v == GetVoltages(logic, logic.time)
        n == Len(logic.trail_points_x)
    IN  /\ lastOp = "tick"
        /\ logic.is_running
        /\ CalculateDeflection(logic, v.vx) > SCREEN_X_MAX
        /\ CalculateDeflection(logic, v.vy) > SCREEN_Y_MAX
        /\ n > 0
        /\ logic.trail_points_x[n] = SCREEN_X_MAX
        /\ logic.trail_points_y[n] = SCREEN_Y_MAX

\* C8 (trail content): after n running ticks from an empty trail, with no
\* handler that clears the trail and no capacity edit in between, the trail is
\* the positions of the last min(n, persistence) ticks, oldest first.
C8_TrailContent ==
    ticksValid =>
        LET n == Len(ticksRun)
            m == Min(n, logic.persistence)
        IN  /\ Len(logic.trail_points_x) = m
            /\ Len(logic.trail_points_y) = m
            /\ \A i \in 1..m :
                   /\ logic.trail_points_x[i] = ticksRun[n - m + i].x
                   /\ logic.trail_points_y[i] = ticksRun[n - m + i].y

\* more ticks than the capacity have run and the beam has moved meanwhile
C8_Witness ==
    /\ ticksValid
    /\ lastOp = "tick"
    /\ nTicks > 0
    /\ Len(ticksRun) > logic.persistence
    /\ ticksRun[1].x # ticksRun[Len(ticksRun)].x

\* C9 (tick while stopped): a tick taken while stopped leaves time, the
\* trail, the voltage history, t0 and the running flag as they are and sets
\* the current position to position(time).
C9_StoppedTick ==
    [][(lastOp' = "tick" /\ ~logic.is_running) =>
          /\ logic'.time = logic.time
          /\ logic'.trail_points_x = logic.trail_points_x
          /\ logic'.trail_points_y = logic.trail_points_y
          /\ logic'.time_history = logic.time_history
          /\ logic'.voltage_history_x = logic.voltage_history_x
          /\ logic'.voltage_history_y = logic.voltage_history_y
          /\ logic'.t0 = logic.t0
          /\ logic'.is_running = logic.is_running
          /\ logic'.current_position = CalculatePosition(logic, logic.time)]_vars

\* a tick has run while stopped, with a trail and a history in place, and
\* the displayed point is off the origin
C9_Witness ==
    /\ lastOp = "tick"
    /\ ~logic.is_running
    /\ logic.time > 0
    /\ logic.trail_points_x # << >>
    /\ logic.time_history # << >>
    /\ logic.current_position.x # 0

\* C10 (time): a running tick adds exactly dt to time, a tick while stopped
\* and every other handler but reset() leave time as it is, and reset() sets
\* it to 0; so time never decreases except by reset().
C10_TimeAdvance ==
    [][/\ (lastOp' = "tick" /\ logic.is_running) => logic'.time = logic.time + DT
       /\ (lastOp' = "tick" /\ ~logic.is_running) => logic'.time = logic.time
       /\ lastOp' = "reset" => logic'.time = 0
       /\ lastOp' \notin {"tick", "reset"} => logic'.time = logic.time
       /\ lastOp' # "reset" => logic'.time >= logic.time]_vars

\* the clock has been stopped and restarted and has ticked again
C10_Witness ==
    /\ lastOp = "tick"
    /\ logic.is_running
    /\ logic.time = 2 * DT
    /\ nTicks > 2

\* C11 (start and stop frame): start() and stop() change only the running
\* flag; time, t0, the trail, the voltage history, the current position and
\* the whole configuration are the same afterwards, so the ticks after
\* stop(); start() go on from the accumulated time and histories.
C11_StartStopFrame ==
    [][(lastOp' \in {"start", "stop"}) =>
          /\ logic'.is_running = (lastOp' = "start")
          /\ logic'.time = logic.time
          /\ logic'.t0 = logic.t0
          /\ logic'.trail_points_x = logic.trail_points_x
          /\ logic'.trail_points_y = logic.trail_points_y
          /\ logic'.time_history = logic.time_history
          /\ logic'.voltage_history_x = logic.voltage_history_x
          /\ logic'.voltage_history_y = logic.voltage_history_y
          /\ logic'.current_position = logic.current_position
          /\ logic'.acceleration_voltage = logic.acceleration_voltage
          /\ logic'.manual_vx = logic.manual_vx
          /\ logic'.manual_vy = logic.manual_vy
          /\ logic'.persistence = logic.persistence
          /\ logic'.mode = logic.mode
          /\ logic'.sine_params = logic.sine_params
          /\ logic'.delta_target_deg = logic.delta_target_deg]_vars

\* start() has just been pressed on a stopped session that holds a trail and
\* a history from earlier ticks
C11_Witness ==
    /\ lastOp = "start"
    /\ logic.is_running
    /\ logic.time > 0
    /\ Len(logic.trail_points_x) > 0
    /\ Len(logic.time_history) > 0
    /\ logic.time_history[Len(logic.time_history)] = logic.time
    /\ Len(ticksRun) < nTicks

\* C12 (reset keeps the configuration): reset() leaves acceleration_voltage,
\* manual_vx, manual_vy, mode, persistence and the amplitude, frequency and
\* phase of both channels as they were.
C12_ResetKeepsConfig ==
    [][(lastOp' = "reset") =>
          /\ logic'.acceleration_voltage = logic.acceleration_voltage
          /\ logic'.manual_vx = logic.manual_vx
          /\ logic'.manual_vy = logic.manual_vy
          /\ logic'.mode = logic.mode
          /\ logic'.persistence = logic.persistence
          /\ logic'.sine_params.amplitude_x = logic.sine_params.amplitude_x
          /\ logic'.sine_params.amplitude_y = logic.sine_params.amplitude_y
          /\ logic'.sine_params.frequency_x = logic.sine_params.frequency_x
          /\ logic'.sine_params.frequency_y = logic.sine_params.frequency_y
          /\ logic'.sine_params.phase_x = logic.sine_params.phase_x
          /\ logic'.sine_params.phase_y = logic.sine_params.phase_y]_vars

\* reset() has just run on a session whose mode and channel parameters had
\* been edited away from their defaults
C12_Witness ==
    /\ lastOp = "reset"
    /\ nTicks > 0
    /\ logic.mode = "sinusoidal"
    /\ logic.sine_params # InitLogic.sine_params

\* the setters of the Lissajous channel parameters
ChannelOps == {"ampx", "ampy", "fx", "fy", "phix", "phiy"}

\* C13 as claimed (eager recompute while stopped): when the simulation is
\* stopped and a setter has edited an input of the active mode
\* (acceleration_voltage in either mode, manual_vx or manual_vy in manual
\* mode, an amplitude, frequency or phase in Lissajous mode), the current
\* position is calculate_position(time) of the updated configuration.
C13_EagerAllInputs ==
    (/\ ~logic.is_running
     /\ \/ lastOp = "acc"
        \/ lastOp \in {"vx", "vy"} /\ logic.mode = "manual"
        \/ lastOp \in ChannelOps /\ logic.mode = "sinusoidal")
    => logic.current_position = CalculatePosition(logic, logic.time)

\* C13 (eager recompute while stopped, amended): when the simulation is
\* stopped, the setter of acceleration_voltage (either mode) and the setters
\* of manual_vx and manual_vy (manual mode) leave the current position equal
\* to calculate_position(time) of the updated configuration; the setters of
\* a channel's amplitude, frequency or phase leave the current position as
\* it was, for the next tick to recompute.
C13_EagerRecompute ==
    [][/\ (lastOp' = "acc" /\ ~logic'.is_running)
              => logic'.current_position = CalculatePosition(logic', logic'.time)
       /\ (lastOp' \in {"vx", "vy"} /\ ~logic'.is_running /\ logic'.mode = "manual")
              => logic'.current_position = CalculatePosition(logic', logic'.time)
       /\ (lastOp' \in ChannelOps)
              => logic'.current_position = logic.current_position]_vars

\* manual_vx has just been edited on a stopped session in manual mode and
\* the dot has left the centre column
C13_Witness ==
    /\ lastOp = "vx"
    /\ ~logic.is_running
    /\ logic.mode = "manual"
    /\ logic.manual_vx # 0
    /\ logic.current_position.x # 0
    /\ logic.trail_points_x = << >>

\* C14 (no division by zero in the phase-lock solver): from every reachable
\* state the ratio preset 1:2 followed by the delta preset 90 deg and
\* _set_delta_by_time_origin(90) ends with a finite t0 that solves the phase
\* equation; and _set_delta_by_time_origin(d) divides by the frequency
\* difference only when it is not zero (t0 is then the exact solution), and
\* with equal frequencies leaves t0 alone and writes phase_y directly.
C14_NoZeroDivide ==
    /\ LET s  == SetDeltaByTimeOrigin(
                     OnDeltaPresetChanged(OnRatioChanged(logic, 1, 2), 100), 100)
           sp == s.sine_params
       IN  /\ s.t0 \in Int
           /\ sp.frequency_x = 1 /\ sp.frequency_y = 2
           /\ (s.time - s.t0) * (sp.frequency_y - sp.frequency_x)
                  = 100 - (sp.phase_y - sp.phase_x)
    /\ \A d \in DeltaPresets :
           LET r  == SetDeltaByTimeOrigin(logic, d)
               p  == logic.sine_params
               df == p.frequency_y - p.frequency_x
           IN  /\ r.t0 \in Int
               /\ (df = 0) => /\ r.t0 = logic.t0
                              /\ r.sine_params.phase_y = (p.phase_x + d) % TurnUnits
               /\ (df # 0) => (r.time - r.t0) * df = d - (p.phase_y - p.phase_x)

\* the ratio preset 1:2 and then the delta preset 90 deg have been chosen on
\* a running session, and t0 has moved to a quarter period before the time
C14_Witness ==
    /\ lastOp = "delta"
    /\ logic.sine_params.frequency_x = 1
    /\ logic.sine_params.frequency_y = 2
    /\ logic.delta_target_deg = 100
    /\ logic.time > 0
    /\ logic.t0 = logic.time - 100

\* C15 (trail capacity shrink): the setter of persistence with a value n
\* below the length of the trail cuts the trail at once to its newest n
\* points in their order; with n at or above the length the trail is
\* unchanged.
C15_CapacityShrink ==
    [][(lastOp' = "pers") =>
          LET n    == logic'.persistence
              oldx == logic.trail_points_x
              oldy == logic.trail_points_y
              newx == logic'.trail_points_x
              newy == logic'.trail_points_y
          IN  IF n < Len(oldx)
              THEN /\ Len(newx) = n
                   /\ Len(newy) = n
                   /\ \A i \in 1..n :
                          /\ newx[i] = oldx[Len(oldx) - n + i]
                          /\ newy[i] = oldy[Len(oldy) - n + i]
              ELSE /\ newx = oldx
                   /\ newy = oldy]_vars

\* the capacity has just been cut from 100 to 10 on a full trail: the ten
\* points left end at the current position and the beam moved across them
C15_Witness ==
    /\ lastOp = "pers"
    /\ logic.persistence = 10
    /\ Len(logic.trail_points_x) = 10
    /\ Len(ticksRun) >= 100
    /\ logic.trail_points_x[10] = ticksRun[Len(ticksRun)].x
    /\ logic.trail_points_x[1] = ticksRun[Len(ticksRun) - 9].x
    /\ logic.trail_points_x[1] # logic.trail_points_x[10]

\* C16 as claimed (reset of the simulation state): after reset() time, the
\* running flag, t0 and delta_target_deg all have their initial values; in
\* particular delta_target_deg is 0 whatever target was chosen before.
C16_ResetAllState ==
    (lastOp = "reset") =>
        /\ logic.time = InitLogic.time
        /\ logic.is_running = InitLogic.is_running
        /\ logic.t0 = InitLogic.t0
        /\ logic.delta_target_deg = InitLogic.delta_target_deg

\* C16 (reset of the simulation state, amended): reset() returns time, the
\* running flag and t0 to their initial values 0, False and 0, and leaves
\* delta_target_deg at the target chosen before.
C16_ResetState ==
    [][(lastOp' = "reset") =>
          /\ logic'.time = InitLogic.time
          /\ logic'.is_running = InitLogic.is_running
          /\ logic'.t0 = InitLogic.t0
          /\ logic'.delta_target_deg = logic.delta_target_deg]_vars

\* reset() has just run on a session that had ticked with a delta target
\* of 90 deg chosen, and the target is still 90 deg
C16_Witness ==
    /\ lastOp = "reset"
    /\ nTicks > 0
    /\ logic.delta_target_deg = 100
    /\ logic.time = 0
    /\ logic.t0 = 0

\* what _set_delta_by_time_origin(d) may change between the state pre it is
\* called in and the state post it returns: with equal frequencies phase_y,
\* which becomes (phase_x + d) mod 360, and not t0; with different
\* frequencies t0 and not the stored phases; either way the trail, which is
\* left empty, and nothing else
SetDeltaFrame(pre, post, d) ==
    LET p == pre.sine_params
        q == post.sine_params
    IN  /\ IF p.frequency_x = p.frequency_y
           THEN /\ q.phase_y = (p.phase_x + d) % TurnUnits
                /\ post.t0 = pre.t0
           ELSE /\ q.phase_y = p.phase_y
        /\ q.phase_x = p.phase_x
        /\ q.frequency_x = p.frequency_x
        /\ q.frequency_y = p.frequency_y
        /\ q.amplitude_x = p.amplitude_x
        /\ q.amplitude_y = p.amplitude_y
        /\ post.trail_points_x = << >>
        /\ post.trail_points_y = << >>
        /\ post.time = pre.time
        /\ post.time_history = pre.time_history
        /\ post.voltage_history_x = pre.voltage_history_x
        /\ post.voltage_history_y = pre.voltage_history_y
        /\ post.is_running = pre.is_running
        /\ post.current_position = pre.current_position
        /\ post.delta_target_deg = pre.delta_target_deg
        /\ post.acceleration_voltage = pre.acceleration_voltage
        /\ post.manual_vx = pre.manual_vx
        /\ post.manual_vy = pre.manual_vy
        /\ post.persistence = pre.persistence
        /\ post.mode = pre.mode

\* C17 (frame of _set_delta_by_time_origin): called with any preset d in any
\* reachable state, _set_delta_by_time_origin(d) writes with equal
\* frequencies phase_y = (phase_x + d) mod 360 and leaves t0; with different
\* frequencies it changes t0 and leaves the stored phases; either way the
\* trail is empty afterwards and time, the voltage history, the running flag
\* and every other field are as before.  The same holds of the calls the
\* frequency setters make, on the state with the new frequency stored.
C17_SetDeltaFrame ==
    /\ [](\A d \in DeltaPresets :
              SetDeltaFrame(logic, SetDeltaByTimeOrigin(logic, d), d))
    /\ [][(lastOp' \in {"fx", "fy"}) =>
             LET pre == [logic EXCEPT
                            !.sine_params.frequency_x = logic'.sine_params.frequency_x,
                            !.sine_params.frequency_y = logic'.sine_params.frequency_y]
             IN  SetDeltaFrame(pre, logic', pre.delta_target_deg)]_vars

\* the ratio preset 1:1 has just called _set_delta_by_time_origin with equal
\* frequencies on a session that had ticked: phase_y follows a phase_x that
\* is not 0, the history is kept and the trail is empty; and a further call
\* with the preset 90 deg would move phase_y again
C17_Witness ==
    /\ lastOp = "ratio"
    /\ logic.sine_params.frequency_x = logic.sine_params.frequency_y
    /\ logic.sine_params.phase_x # 0
    /\ logic.sine_params.phase_y =
           (logic.sine_params.phase_x + logic.delta_target_deg) % TurnUnits
    /\ logic.time > 0
    /\ Len(logic.time_history) > 0
    /\ logic.trail_points_x = << >>
    /\ logic.t0 = 0
    /\ SetDeltaByTimeOrigin(logic, 100).sine_params.phase_y # logic.sine_params.phase_y
    /\ SetDeltaByTimeOrigin(logic, 100).t0 = logic.t0

\* a state where _set_delta_by_time_origin takes the other branch on a
\* session with a trail: frequencies differ, t0 has been moved by an earlier
\* call, and a call with the preset 90 deg moves t0 again and empties the trail
C17_WitnessT0 ==
    /\ logic.sine_params.frequency_x # logic.sine_params.frequency_y
    /\ logic.t0 # 0
    /\ Len(logic.trail_points_x) > 0
    /\ Len(logic.time_history) > 0
    /\ SetDeltaByTimeOrigin(logic, 100).t0 # logic.t0

\* C18 (history after a running tick): after a tick taken while running the
\* voltage history is not empty and its newest sample carries the current
\* time; the tick dropped only a prefix of the history it appended to, every
\* dropped sample was, by the program's comparison, more than 5.0 s older
\* than the newest one while more than one sample was held, and what is left
\* is one sample or a window the comparison finds at most 5.0 s long.
C18_TickHistory ==
    [][(lastOp' = "tick" /\ logic.is_running) =>
          LET v     == GetVoltages(logic', logic'.time)
              oldt  == Append(logic.time_history, logic'.time)
              oldvx == Append(logic.voltage_history_x, v.vx)
              oldvy == Append(logic.voltage_history_y, v.vy)
              newt  == logic'.time_history
              n     == Len(oldt)
              k     == n - Len(newt)
          IN  /\ Len(newt) >= 1
              /\ newt[Len(newt)] = logic'.time
              /\ k >= 0
              /\ newt = SubSeq(oldt, k + 1, n)
              /\ logic'.voltage_history_x = SubSeq(oldvx, k + 1, n)
              /\ logic'.voltage_history_y = SubSeq(oldvy, k + 1, n)
              /\ \A j \in 1..k : /\ n - (j - 1) > 1
                                 /\ SpanExceeds(oldt[n], oldt[j])
              /\ newt[Len(newt)] - newt[1] <= TIME_WINDOW
              /\ Len(newt) = 1 \/ ~SpanExceeds(newt[Len(newt)], newt[1])]_vars

\* a running tick has dropped two samples: the one older than 5.0 s and the
\* one 500 ticks old, whose distance to the newest time the floats put
\* above 5.0; the history is left one tick short of the whole window
C18_Witness ==
    LET th == logic.time_history
    IN  /\ lastOp = "tick"
        /\ logic.is_running
        /\ nTicks >= 2
        /\ Len(ticksRun) >= WarmTicks + 2
        /\ Len(th) = TIME_WINDOW \div DT
        /\ th[Len(th)] = logic.time
        /\ th[1] = logic.time - TIME_WINDOW + DT

\* C19 (parallel buffers): in every reachable state the two trail lists have
\* the same length, the three history lists have the same length, and the
\* times of the history are strictly increasing.
C19_LockStep ==
    /\ Len(logic.trail_points_x) = Len(logic.trail_points_y)
    /\ Len(logic.time_history) = Len(logic.voltage_history_x)
    /\ Len(logic.time_history) = Len(logic.voltage_history_y)
    /\ \A i \in 1..(Len(logic.time_history) - 1) :
           logic.time_history[i] < logic.time_history[i + 1]

\* the trail has been cut to 10 points and a later running tick has pushed
\* one point through it and one sample through the full history window
C19_Witness ==
    /\ lastOp = "tick"
    /\ logic.is_running
    /\ logic.persistence = 10
    /\ Len(logic.trail_points_y) = 10
    /\ Len(logic.voltage_history_y) = TIME_WINDOW \div DT + 1
    /\ logic.time_history[1] > DT
    /\ ~ticksValid

====
